---- MODULE Spec2Model ----
(***************************************************************************)
(* CatService (src/resource/cat/cat.service.ts) over a Mongoose model of   *)
(* the Cat schema.  Callers issue service operations concurrently; the two *)
(* real operations (create, findAll) suspend on one storage round trip,    *)
(* the three stubs (findOne, update, remove) return a string at once.      *)
(***************************************************************************)
EXTENDS Integers, Sequences, FiniteSets, TLC

VARIABLES
    catModel,    \* the service's only field: the injected collection handle
    collection,  \* the documents of the collection behind the handle
    storageUp,   \* whether the storage collaborator can be reached
    nextId,      \* the identifier the next constructed document receives
    pc,          \* per caller: where its current call stands
    call,        \* per caller: the operation and arguments of its call
    createdCat,  \* per caller: the local `createdCat` of create
    reply,       \* per caller: how the storage round trip of its call ended
    result,      \* per caller: how the service call ended for the caller
    attempts,    \* per caller: storage operations issued by its current call
    acked,       \* history: the records that successful creates returned
    expect       \* history: per caller, acked when its findAll started

vars == <<catModel, collection, storageUp, nextId, pc, call, createdCat,
          reply, result, attempts, acked, expect>>

----------------------------------------------------------------------------
(* Bounds *)

\* documents the collection can come to hold (caps the identifier counter)
MaxCats == 2

\* two callers, whose calls overlap in every possible way
Callers == {"a", "b"}

----------------------------------------------------------------------------
(* Data *)

\* Cat.name: the model token, and the collection derived from it
CatName == "Cat"

\* the fields a CreateCatDto carries (name, age, breed of the Cat schema)
CreateCatDtos ==
    { [name |-> "Tom",   age |-> 3, breed |-> "Tabby"],
      [name |-> "Felix", age |-> 0, breed |-> "Siamese"],
      [name |-> "Tom",   age |-> 0, breed |-> "Siamese"] }

\* an UpdateCatDto carries any part of the fields
UpdateCatDtos == { [name |-> "Rex"], [age |-> 9, breed |-> "Tabby"] }

\* the numeric ids handed to the stubs: negative, zero, ids of records, more digits
StubIds == {-7, 0, 1, 5, 12}

NoId == 0
NoCat == [id |-> NoId, name |-> "", age |-> 0, breed |-> ""]
NoDto == [name |-> "", age |-> 0, breed |-> ""]
NoCall == [op |-> "none", id |-> 0, createCatDto |-> NoDto, updateCatDto |-> <<>>]

\* the outcome of a storage round trip or of a service call
NoOutcome == [kind |-> "none", cat |-> NoCat, cats |-> <<>>, text |-> "", error |-> ""]
CatOutcome(cat) == [NoOutcome EXCEPT !.kind = "cat", !.cat = cat]
CatsOutcome(cats) == [NoOutcome EXCEPT !.kind = "cats", !.cats = cats]
TextOutcome(text) == [NoOutcome EXCEPT !.kind = "text", !.text = text]
ErrorOutcome(error) == [NoOutcome EXCEPT !.kind = "error", !.error = error]

Ids(cats) == { cat.id : cat \in cats }

Range(seq) == { seq[i] : i \in 1..Len(seq) }

\* the orders in which a set of documents can be listed
Orderings(cats) ==
    { seq \in [1..Cardinality(cats) -> cats] : Range(seq) = cats }

----------------------------------------------------------------------------
(* Number to string conversion of a template literal, for integers *)

Digit(d) ==
    CASE d = 0 -> "0" [] d = 1 -> "1" [] d = 2 -> "2" [] d = 3 -> "3"
      [] d = 4 -> "4" [] d = 5 -> "5" [] d = 6 -> "6" [] d = 7 -> "7"
      [] d = 8 -> "8" [] d = 9 -> "9"

RECURSIVE Digits(_)
Digits(n) == IF n < 10 THEN Digit(n) ELSE Digits(n \div 10) \o Digit(n % 10)

NumberToString(n) == IF n < 0 THEN "-" \o Digits(0 - n) ELSE Digits(n)

----------------------------------------------------------------------------
(* The stubs' return values *)

findOneCats(id) == "This action returns a #" \o NumberToString(id) \o " cats"

findOne(id) == "This action returns a #" \o NumberToString(id) \o " cat"

update(id, updateCatDto) == "This action updates a #" \o NumberToString(id) \o " cat"

removeCopied(id) == "This action returns a #" \o NumberToString(id) \o " cat"

remove(id) == "This action removes a #" \o NumberToString(id) \o " cat"

----------------------------------------------------------------------------
(* new this.catModel(createCatDto): the document built from the dto *)

NewCatNoAge(id, createCatDto) ==
    [id |-> id, name |-> createCatDto.name, age |-> 0, breed |-> createCatDto.breed]

NewCat(id, createCatDto) ==
    [id |-> id, name |-> createCatDto.name, age |-> createCatDto.age,
     breed |-> createCatDto.breed]

----------------------------------------------------------------------------
(* Storage collaborator *)

\* the failure an insert of cat meets, "" when it can be served
InsertFailure(cat) ==
    IF ~storageUp THEN "connection lost"
    ELSE IF cat.id \in Ids(collection) THEN "duplicate key"
    ELSE ""

Init ==
    /\ catModel = CatName
    /\ collection = {}
    /\ storageUp = TRUE
    /\ nextId = 1
    /\ pc = [c \in Callers |-> "idle"]
    /\ call = [c \in Callers |-> NoCall]
    /\ createdCat = [c \in Callers |-> NoCat]
    /\ reply = [c \in Callers |-> NoOutcome]
    /\ result = [c \in Callers |-> NoOutcome]
    /\ attempts = [c \in Callers |-> 0]
    /\ acked = {}
    /\ expect = [c \in Callers |-> {}]

----------------------------------------------------------------------------
(* create *)

\* variant: the document is kept in a field of the service, shared by all calls
CallCreateSharedDoc(c, createCatDto) ==
    /\ pc[c] = "idle"
    /\ nextId <= MaxCats
    /\ call' = [call EXCEPT ![c] = [NoCall EXCEPT !.op = "create",
                                                  !.createCatDto = createCatDto]]
    /\ createdCat' = [k \in Callers |-> NewCat(nextId, createCatDto)]
    /\ nextId' = nextId + 1
    /\ attempts' = [attempts EXCEPT ![c] = 1]
    /\ pc' = [pc EXCEPT ![c] = "saving"]
    /\ UNCHANGED <<catModel, collection, storageUp, reply, result, acked, expect>>

\* variant: the document is inserted once when built and once more by save()
CallCreateTwice(c, createCatDto) ==
    /\ pc[c] = "idle"
    /\ nextId <= MaxCats
    /\ call' = [call EXCEPT ![c] = [NoCall EXCEPT !.op = "create",
                                                  !.createCatDto = createCatDto]]
    /\ createdCat' = [createdCat EXCEPT ![c] = NewCat(nextId, createCatDto)]
    /\ collection' = IF storageUp THEN collection \cup {NewCat(nextId, createCatDto)}
                                  ELSE collection
    /\ nextId' = nextId + 1
    /\ attempts' = [attempts EXCEPT ![c] = 2]
    /\ pc' = [pc EXCEPT ![c] = "saving"]
    /\ UNCHANGED <<catModel, storageUp, reply, result, acked, expect>>

\* create up to its await: the document is built and its save() is issued
CallCreate(c, createCatDto) ==
    /\ pc[c] = "idle"
    /\ nextId <= MaxCats
    /\ call' = [call EXCEPT ![c] = [NoCall EXCEPT !.op = "create",
                                                  !.createCatDto = createCatDto]]
    /\ createdCat' = [createdCat EXCEPT ![c] = NewCat(nextId, createCatDto)]
    /\ nextId' = nextId + 1
    /\ attempts' = [attempts EXCEPT ![c] = 1]
    /\ pc' = [pc EXCEPT ![c] = "saving"]
    /\ UNCHANGED <<catModel, collection, storageUp, reply, result, acked, expect>>

\* the storage serves the save(): one insert of the document, or a failure
StorageInsert(c) ==
    /\ pc[c] = "saving"
    /\ IF InsertFailure(createdCat[c]) = ""
       THEN /\ collection' = collection \cup {createdCat[c]}
            /\ reply' = [reply EXCEPT ![c] = CatOutcome(createdCat[c])]
       ELSE /\ collection' = collection
            /\ reply' = [reply EXCEPT ![c] = ErrorOutcome(InsertFailure(createdCat[c]))]
    /\ pc' = [pc EXCEPT ![c] = "saved"]
    /\ UNCHANGED <<catModel, storageUp, nextId, call, createdCat, result,
                   attempts, acked, expect>>

\* variant: a failure of save() is translated into an error of the service
CreateReturnWrapped(c) ==
    /\ pc[c] = "saved"
    /\ result' = [result EXCEPT ![c] =
                     IF reply[c].kind = "error"
                     THEN ErrorOutcome("Internal server error") ELSE reply[c]]
    /\ acked' = IF reply[c].kind = "cat" THEN acked \cup {reply[c].cat} ELSE acked
    /\ pc' = [pc EXCEPT ![c] = "done"]
    /\ UNCHANGED <<catModel, collection, storageUp, nextId, call, createdCat,
                   reply, attempts, expect>>

\* `return createdCat.save()`: the call settles as the save() settled
CreateReturn(c) ==
    /\ pc[c] = "saved"
    /\ result' = [result EXCEPT ![c] = reply[c]]
    /\ acked' = IF reply[c].kind = "cat" THEN acked \cup {reply[c].cat} ELSE acked
    /\ pc' = [pc EXCEPT ![c] = "done"]
    /\ UNCHANGED <<catModel, collection, storageUp, nextId, call, createdCat,
                   reply, attempts, expect>>

----------------------------------------------------------------------------
(* findAll *)

\* findAll up to its await: find().exec() is issued
CallFindAll(c) ==
    /\ pc[c] = "idle"
    /\ call' = [call EXCEPT ![c] = [NoCall EXCEPT !.op = "findAll"]]
    /\ attempts' = [attempts EXCEPT ![c] = 1]
    /\ expect' = [expect EXCEPT ![c] = acked]
    /\ pc' = [pc EXCEPT ![c] = "finding"]
    /\ UNCHANGED <<catModel, collection, storageUp, nextId, createdCat, reply,
                   result, acked>>

\* the storage serves the query: every document, in an order of its choosing
StorageListAll(c) ==
    /\ pc[c] = "finding"
    /\ IF storageUp
       THEN \E cats \in Orderings(collection) :
                reply' = [reply EXCEPT ![c] = CatsOutcome(cats)]
       ELSE reply' = [reply EXCEPT ![c] = ErrorOutcome("connection lost")]
    /\ pc' = [pc EXCEPT ![c] = "found"]
    /\ UNCHANGED <<catModel, collection, storageUp, nextId, call, createdCat,
                   result, attempts, acked, expect>>

\* variant: the list is cut to its first document
FindAllReturnLimited(c) ==
    /\ pc[c] = "found"
    /\ result' = [result EXCEPT ![c] =
                     IF reply[c].kind = "cats" /\ Len(reply[c].cats) > 1
                     THEN CatsOutcome(SubSeq(reply[c].cats, 1, 1)) ELSE reply[c]]
    /\ pc' = [pc EXCEPT ![c] = "done"]
    /\ UNCHANGED <<catModel, collection, storageUp, nextId, call, createdCat,
                   reply, attempts, acked, expect>>

\* `return this.catModel.find().exec()`: the call settles as the query settled
FindAllReturn(c) ==
    /\ pc[c] = "found"
    /\ result' = [result EXCEPT ![c] = reply[c]]
    /\ pc' = [pc EXCEPT ![c] = "done"]
    /\ UNCHANGED <<catModel, collection, storageUp, nextId, call, createdCat,
                   reply, attempts, acked, expect>>

----------------------------------------------------------------------------
(* The stubs: synchronous, one step each *)

\* variant: findOne looks the record up, and fails as a lookup fails
CallFindOneLookup(c, id) ==
    /\ pc[c] = "idle"
    /\ call' = [call EXCEPT ![c] = [NoCall EXCEPT !.op = "findOne", !.id = id]]
    /\ result' = [result EXCEPT ![c] =
                     IF ~storageUp THEN ErrorOutcome("connection lost")
                     ELSE IF id \notin Ids(collection) THEN ErrorOutcome("not found")
                     ELSE TextOutcome(findOne(id))]
    /\ attempts' = [attempts EXCEPT ![c] = 1]
    /\ pc' = [pc EXCEPT ![c] = "done"]
    /\ UNCHANGED <<catModel, collection, storageUp, nextId, createdCat, reply,
                   acked, expect>>

CallFindOne(c, id) ==
    /\ pc[c] = "idle"
    /\ call' = [call EXCEPT ![c] = [NoCall EXCEPT !.op = "findOne", !.id = id]]
    /\ result' = [result EXCEPT ![c] = TextOutcome(findOne(id))]
    /\ attempts' = [attempts EXCEPT ![c] = 0]
    /\ pc' = [pc EXCEPT ![c] = "done"]
    /\ UNCHANGED <<catModel, collection, storageUp, nextId, createdCat, reply,
                   acked, expect>>

\* the record with the fields of the dto written over its own
Merge(cat, updateCatDto) ==
    [f \in DOMAIN cat |-> IF f \in DOMAIN updateCatDto THEN updateCatDto[f] ELSE cat[f]]

\* variant: update writes the fields of the dto to the record with that id
CallUpdateApplied(c, id, updateCatDto) ==
    /\ pc[c] = "idle"
    /\ call' = [call EXCEPT ![c] = [NoCall EXCEPT !.op = "update", !.id = id,
                                                  !.updateCatDto = updateCatDto]]
    /\ result' = [result EXCEPT ![c] = TextOutcome(update(id, updateCatDto))]
    /\ collection' = { IF cat.id = id THEN Merge(cat, updateCatDto) ELSE cat :
                          cat \in collection }
    /\ attempts' = [attempts EXCEPT ![c] = 0]
    /\ pc' = [pc EXCEPT ![c] = "done"]
    /\ UNCHANGED <<catModel, storageUp, nextId, createdCat, reply, acked, expect>>

CallUpdate(c, id, updateCatDto) ==
    /\ pc[c] = "idle"
    /\ call' = [call EXCEPT ![c] = [NoCall EXCEPT !.op = "update", !.id = id,
                                                  !.updateCatDto = updateCatDto]]
    /\ result' = [result EXCEPT ![c] = TextOutcome(update(id, updateCatDto))]
    /\ attempts' = [attempts EXCEPT ![c] = 0]
    /\ pc' = [pc EXCEPT ![c] = "done"]
    /\ UNCHANGED <<catModel, collection, storageUp, nextId, createdCat, reply,
                   acked, expect>>

\* variant: remove deletes the record with that id
CallRemoveDeleting(c, id) ==
    /\ pc[c] = "idle"
    /\ call' = [call EXCEPT ![c] = [NoCall EXCEPT !.op = "remove", !.id = id]]
    /\ result' = [result EXCEPT ![c] = TextOutcome(remove(id))]
    /\ collection' = { cat \in collection : cat.id # id }
    /\ attempts' = [attempts EXCEPT ![c] = 0]
    /\ pc' = [pc EXCEPT ![c] = "done"]
    /\ UNCHANGED <<catModel, storageUp, nextId, createdCat, reply, acked, expect>>

CallRemove(c, id) ==
    /\ pc[c] = "idle"
    /\ call' = [call EXCEPT ![c] = [NoCall EXCEPT !.op = "remove", !.id = id]]
    /\ result' = [result EXCEPT ![c] = TextOutcome(remove(id))]
    /\ attempts' = [attempts EXCEPT ![c] = 0]
    /\ pc' = [pc EXCEPT ![c] = "done"]
    /\ UNCHANGED <<catModel, collection, storageUp, nextId, createdCat, reply,
                   acked, expect>>

----------------------------------------------------------------------------
(* Environment *)

\* the caller takes the result; nothing of the call outlives it
Collect(c) ==
    /\ pc[c] = "done"
    /\ pc' = [pc EXCEPT ![c] = "idle"]
    /\ call' = [call EXCEPT ![c] = NoCall]
    /\ createdCat' = [createdCat EXCEPT ![c] = NoCat]
    /\ reply' = [reply EXCEPT ![c] = NoOutcome]
    /\ result' = [result EXCEPT ![c] = NoOutcome]
    /\ attempts' = [attempts EXCEPT ![c] = 0]
    /\ expect' = [expect EXCEPT ![c] = {}]
    /\ UNCHANGED <<catModel, collection, storageUp, nextId, acked>>

\* the connection to the storage is lost
StorageFail ==
    /\ storageUp
    /\ storageUp' = FALSE
    /\ UNCHANGED <<catModel, collection, nextId, pc, call, createdCat, reply,
                   result, attempts, acked, expect>>

\* the connection to the storage is back
StorageRecover ==
    /\ ~storageUp
    /\ storageUp' = TRUE
    /\ UNCHANGED <<catModel, collection, nextId, pc, call, createdCat, reply,
                   result, attempts, acked, expect>>

Next ==
    \/ \E c \in Callers, createCatDto \in CreateCatDtos : CallCreate(c, createCatDto)
    \/ \E c \in Callers : StorageInsert(c)
    \/ \E c \in Callers : CreateReturn(c)
    \/ \E c \in Callers : CallFindAll(c)
    \/ \E c \in Callers : StorageListAll(c)
    \/ \E c \in Callers : FindAllReturn(c)
    \/ \E c \in Callers, id \in StubIds : CallFindOne(c, id)
    \/ \E c \in Callers, id \in StubIds, updateCatDto \in UpdateCatDtos :
           CallUpdate(c, id, updateCatDto)
    \/ \E c \in Callers, id \in StubIds : CallRemove(c, id)
    \/ \E c \in Callers : Collect(c)
    \/ StorageFail
    \/ StorageRecover

Spec == Init /\ [][Next]_vars

----------------------------------------------------------------------------
(* Properties *)

Done(c, op) == pc[c] = "done" /\ call[c].op = op

\* the step in which the call of op by c returns to the caller
Returns(c, op) == pc[c] # "done" /\ pc'[c] = "done" /\ call'[c].op = op

\* C1: a successful create(input) returns a persisted record whose name, age
\* and breed are the input's, with a non-empty generated identifier.
C1_CreateReturnsInput ==
    \A c \in Callers :
        (Done(c, "create") /\ result[c].kind # "error") =>
            /\ result[c].kind = "cat"
            /\ result[c].cat.name = call[c].createCatDto.name
            /\ result[c].cat.age = call[c].createCatDto.age
            /\ result[c].cat.breed = call[c].createCatDto.breed
            /\ result[c].cat.id # NoId
            /\ result[c].cat \in collection

C1_Witness ==
    \E c \in Callers :
        /\ Done(c, "create")
        /\ result[c].kind = "cat"
        /\ call[c].createCatDto = [name |-> "Tom", age |-> 3, breed |-> "Tabby"]

\* C2: a findAll that starts after a create has succeeded, and succeeds,
\* returns a sequence that includes the created record, whatever service
\* operations ran in between.
C2_FindAllIncludesCreated ==
    \A c \in Callers :
        (Done(c, "findAll") /\ result[c].kind # "error") =>
            /\ result[c].kind = "cats"
            /\ expect[c] \subseteq Range(result[c].cats)

C2_Witness ==
    \E c \in Callers :
        /\ Done(c, "findAll")
        /\ result[c].kind = "cats"
        /\ Cardinality(expect[c]) = 2

\* C3: a successful findAll returns exactly the records that are in the
\* collection when the read is served, each once, and an empty sequence
\* (no error) when the collection is empty.
C3_FindAllReturnsCollection ==
    [][\A c \in Callers :
        /\ (pc[c] = "finding" /\ pc'[c] = "found") =>
              /\ storageUp => reply'[c].kind = "cats"
              /\ reply'[c].kind = "cats" =>
                    /\ Range(reply'[c].cats) = collection
                    /\ Len(reply'[c].cats) = Cardinality(collection)
              /\ (storageUp /\ collection = {}) => reply'[c] = CatsOutcome(<<>>)
        /\ (Returns(c, "findAll") /\ reply[c].kind = "cats") =>
              /\ result'[c].kind = "cats"
              /\ result'[c].cats = reply[c].cats]_vars

C3_Witness ==
    \E c \in Callers, d \in Callers :
        /\ Done(c, "findAll") /\ result[c].kind = "cats"
        /\ Len(result[c].cats) = 2 /\ Range(result[c].cats) = collection
        /\ Done(d, "findAll") /\ result[d] = CatsOutcome(<<>>)

\* C4: when the storage operation of create or findAll fails, the call ends
\* with that same failure (not another error, not a value), and one storage
\* operation was attempted by the call.
C4_StorageFailurePropagates ==
    \A c \in Callers :
        (Done(c, "create") \/ Done(c, "findAll")) =>
            /\ attempts[c] = 1
            /\ reply[c].kind = "error" =>
                  /\ result[c].kind = "error"
                  /\ result[c].error = reply[c].error
                  /\ result[c] = reply[c]

C4_Witness ==
    \E c \in Callers, d \in Callers :
        /\ Done(c, "create") /\ result[c] = ErrorOutcome("connection lost")
        /\ Done(d, "findAll") /\ result[d] = ErrorOutcome("connection lost")

\* C5: findOne(id) returns "This action returns a #<id> cat" (for 5,
\* "This action returns a #5 cat"), whether or not a record has that id,
\* without storage access and leaving the collection unchanged.
C5_FindOnePlaceholder ==
    [][\A c \in Callers :
        Returns(c, "findOne") =>
            /\ result'[c] = TextOutcome("This action returns a #"
                                          \o ToString(call'[c].id) \o " cat")
            /\ call'[c].id = 5 => result'[c].text = "This action returns a #5 cat"
            /\ attempts'[c] = 0
            /\ collection' = collection
            /\ reply' = reply]_vars

C5_Witness ==
    \E c \in Callers, d \in Callers :
        /\ Done(c, "findOne") /\ call[c].id = 1 /\ 1 \in Ids(collection)
        /\ result[c].text = "This action returns a #1 cat"
        /\ Done(d, "findOne") /\ call[d].id = 5 /\ 5 \notin Ids(collection)
        /\ result[d].text = "This action returns a #5 cat"

\* C6: update(id, input) and remove(id) return only their placeholder string
\* naming id, without storage access: the collection, and so every record
\* and its fields, is the same after them.
C6_UpdateRemovePlaceholder ==
    [][\A c \in Callers :
        /\ Returns(c, "update") =>
              /\ result'[c] = TextOutcome("This action updates a #"
                                            \o ToString(call'[c].id) \o " cat")
              /\ attempts'[c] = 0
              /\ collection' = collection
              /\ reply' = reply
        /\ Returns(c, "remove") =>
              /\ result'[c] = TextOutcome("This action removes a #"
                                            \o ToString(call'[c].id) \o " cat")
              /\ attempts'[c] = 0
              /\ collection' = collection
              /\ reply' = reply]_vars

C6_Witness ==
    \E c \in Callers, d \in Callers :
        /\ Done(c, "update") /\ call[c].id = 1
        /\ call[c].updateCatDto = [name |-> "Rex"]
        /\ result[c].text = "This action updates a #1 cat"
        /\ Done(d, "remove") /\ call[d].id = 1
        /\ result[d].text = "This action removes a #1 cat"
        /\ \E cat \in collection : cat.id = 1 /\ cat.name = "Tom"

\* C7: findOne, update and remove never fail: in every state of the storage,
\* and whether or not a record has the id, they return their string.
C7_StubsNeverFail ==
    \A c \in Callers :
        (Done(c, "findOne") \/ Done(c, "update") \/ Done(c, "remove")) =>
            /\ result[c].kind = "text"
            /\ result[c].error = ""
            /\ result[c].text # ""

C7_Witness ==
    \E c \in Callers, d \in Callers :
        /\ ~storageUp
        /\ Done(c, "findOne") /\ call[c].id \notin Ids(collection)
        /\ result[c].kind = "text"
        /\ Done(d, "remove") /\ call[d].id \in Ids(collection)
        /\ result[d].kind = "text"

\* C8: no service operation destroys or alters a record: a record that is in
\* the collection is in it, with the same identifier and fields, after
\* every step.
C8_RecordsNeverDestroyed == [][collection \subseteq collection']_vars

C8_Witness ==
    \E c \in Callers :
        /\ Done(c, "remove")
        /\ call[c].id \in Ids(collection)
        /\ Cardinality(collection) = MaxCats

\* C9: the collection handle is never reassigned, and concurrent calls do not
\* interfere: a create in flight holds the document of its own input, every
\* successful create has its own record in the collection, under its own
\* identifier.
C9_ConcurrentCallsIndependent ==
    /\ catModel = CatName
    /\ \A c \in Callers :
          (call[c].op = "create" /\ pc[c] \in {"saving", "saved", "done"}) =>
              /\ createdCat[c] = NewCat(createdCat[c].id, call[c].createCatDto)
              /\ reply[c].kind = "cat" =>
                    reply[c].cat = createdCat[c] /\ createdCat[c] \in collection
    /\ \A c \in Callers, d \in Callers :
          (c # d /\ call[c].op = "create" /\ call[d].op = "create") =>
              createdCat[c].id # createdCat[d].id
    /\ acked \subseteq collection
    /\ Cardinality(Ids(collection)) = Cardinality(collection)

C9_Witness ==
    \E c \in Callers, d \in Callers :
        /\ pc[c] = "saved" /\ reply[c].kind = "cat"
        /\ pc[d] = "saved" /\ reply[d].kind = "cat"
        /\ call[c].createCatDto # call[d].createCatDto
        /\ collection = {createdCat[c], createdCat[d]}

\* C10: each create performs one insert: when the insert succeeds, one record
\* is added, under an identifier no record present has, and no record
\* changes; when it fails, the collection is unchanged; and the collection
\* changes in no other step.
C10_CreateInsertsOnce ==
    [][/\ \A c \in Callers :
            (pc[c] = "saving" /\ pc'[c] = "saved") =>
                IF reply'[c].kind = "cat"
                THEN /\ reply'[c].cat.id \notin Ids(collection)
                     /\ collection' = collection \cup {reply'[c].cat}
                     /\ Cardinality(collection') = Cardinality(collection) + 1
                ELSE /\ reply'[c].kind = "error"
                     /\ collection' = collection
       /\ collection' # collection =>
            \E c \in Callers : pc[c] = "saving" /\ pc'[c] = "saved"
       /\ \A c \in Callers : call'[c].op = "create" => attempts'[c] = 1]_vars

C10_Witness ==
    \E c \in Callers, d \in Callers :
        /\ pc[c] = "saved" /\ reply[c].kind = "cat"
        /\ pc[d] = "saved" /\ reply[d].kind = "error"
        /\ collection = {createdCat[c]}

====
